---- MODULE Spec2Model ----
(***************************************************************************)
(* A model of the textbox micro-blogging backend (src/app.py): the four    *)
(* tables (user, post, like, follow), the per-client login session, the    *)
(* clock, and one action per HTTP handler.                                 *)
(*                                                                         *)
(* Conventions                                                             *)
(*   - a text is a sequence of one-character strings;                      *)
(*   - row ids are the positions 1, 2, ... the database hands out; None    *)
(*     (0) stands for "no id" (a NULL column, an anonymous session);        *)
(*   - the like and follow tables are bags of the (a, b) pairs of their    *)
(*     rows: the surrogate primary key is never read by the program, and a *)
(*     bag still tells one row from two rows for the same pair;            *)
(*   - time is counted in hours.                                           *)
(***************************************************************************)
EXTENDS Integers, Sequences, FiniteSets, Bags, TLC

\* ---------------------------------------------------------------- bounds
MaxUsers == 2
MaxPosts == 1
NumClients == 2
MaxTicks == 3
MaxReqs == 2
MaxLikes == 2
MaxFeedPosts == 3
MaxTrendPosts == 12

\* ------------------------------------------------------ program constants
Window == 24
TrendLimit == 10
Mask == <<"*", "*", "*", "*">>
banned_words ==
  << <<"b","a","d","w","o","r","d","1">>,
     <<"b","a","d","w","o","r","d","2">>,
     <<"b","a","d","w","o","r","d","3">> >>
login_view == "index"

None == 0
HalfWindow == Window \div 2

Clients == 1 .. NumClients
Reqs == 1 .. MaxReqs

\* ------------------------------------------------------------------ texts
Whitespace == {" ", "\t"}

RECURSIVE lstrip(_)
lstrip(s) ==
  IF s # <<>> /\ Head(s) \in Whitespace THEN lstrip(Tail(s)) ELSE s

RECURSIVE rstrip(_)
rstrip(s) ==
  IF s # <<>> /\ s[Len(s)] \in Whitespace
  THEN rstrip(SubSeq(s, 1, Len(s) - 1)) ELSE s

\* str.strip(): whitespace removed at both ends
strip(s) == rstrip(lstrip(s))

UpperCase == <<"A","B","C","D","E","F","G","H","I","J","K","L","M",
               "N","O","P","Q","R","S","T","U","V","W","X","Y","Z">>
LowerCase == <<"a","b","c","d","e","f","g","h","i","j","k","l","m",
               "n","o","p","q","r","s","t","u","v","w","x","y","z">>

\* case folding used by re.IGNORECASE
FoldMap ==
  [c \in {UpperCase[i] : i \in 1 .. Len(UpperCase)} |->
     LowerCase[CHOOSE i \in 1 .. Len(UpperCase) : UpperCase[i] = c]]

Fold(c) == IF c \in DOMAIN FoldMap THEN FoldMap[c] ELSE c

FoldSeq(s) == [i \in 1 .. Len(s) |-> Fold(s[i])]

\* does word match text at position i, ignoring case
MatchAt(text, i, word) ==
  /\ i + Len(word) - 1 <= Len(text)
  /\ \A k \in 1 .. Len(word) : Fold(text[i + k - 1]) = Fold(word[k])

\* a substitution that stops after the first match
re_sub_first(word, text, i) ==
  LET found == {j \in i .. Len(text) : MatchAt(text, j, word)}
  IN IF found = {} THEN SubSeq(text, i, Len(text))
     ELSE LET j == CHOOSE m \in found : \A n \in found : m <= n
          IN SubSeq(text, i, j - 1) \o Mask
               \o SubSeq(text, j + Len(word), Len(text))

\* re.sub(re.escape(word), "****", text, flags=re.IGNORECASE): leftmost,
\* non-overlapping matches, scanning from position i
RECURSIVE re_sub(_, _, _)
re_sub(word, text, i) ==
  LET found == {j \in i .. Len(text) : MatchAt(text, j, word)}
  IN IF found = {} THEN SubSeq(text, i, Len(text))
     ELSE LET j == CHOOSE m \in found : \A n \in found : m <= n
          IN SubSeq(text, i, j - 1) \o Mask
               \o re_sub(word, text, j + Len(word))

RECURSIVE clean_from(_, _)
clean_from(text, k) ==
  IF k > Len(banned_words) THEN text
  ELSE clean_from(re_sub(banned_words[k], text, 1), k + 1)

clean_content(text) == clean_from(text, 1)

\* ------------------------------------------------------- password hashing
\* generate_password_hash / check_password_hash: the hash is not the
\* password, and it verifies exactly the password it was made from
generate_password_hash(pw) == <<"pbkdf2">> \o pw
check_password_hash(h, pw) == h = generate_password_hash(pw)

\* ------------------------------------------------------------------ state
VARIABLES
  users,     \* user table: sequence of [username, password_hash]; id = index
  posts,     \* post table: sequence of [content, likes, timestamp, user_id]
  likes,     \* like table: bag of <<user_id, post_id>>
  follows,   \* follow table: bag of <<follower_id, followed_id>>
  session,   \* session[c]: the user id client c is logged in as, or None
  now,       \* datetime.utcnow(), in hours
  resp,      \* the response to the most recent request handled in one piece
  reqs,      \* reqs[r]: a request being handled step by step
  trail,     \* the latest successful toggle-like calls that ran back to back
  engine     \* the database engine DATABASE_URL selects

vars == <<users, posts, likes, follows, session, now, resp, reqs, trail,
          engine>>

\* ----------------------------------------------------------- table access
UserIds == 1 .. Len(users)
PostIds == 1 .. Len(posts)

Pair(a, b) == SetToBag({<<a, b>>})

\* Model.query.filter_by(...).first() is not None
HasRow(table, a, b) == CopiesIn(<<a, b>>, table) > 0

\* number of Like rows that reference post p
LikeRows(table, p) ==
  LET S == {e \in BagToSet(table) : e[2] = p}
      RECURSIVE Sum(_)
      Sum(T) == IF T = {} THEN 0
                ELSE LET e == CHOOSE x \in T : TRUE
                     IN CopiesIn(e, table) + Sum(T \ {e})
  IN Sum(S)

\* a lookup that finds nobody
UserByName_none(tbl, username) == None

\* User.query.filter_by(username=...).first()
UserByName(tbl, username) ==
  IF \E i \in 1 .. Len(tbl) : tbl[i].username = username
  THEN CHOOSE i \in 1 .. Len(tbl) : tbl[i].username = username
  ELSE None

\* -------------------------------------------------------------- responses
NoPosts == <<>>

\* a response: its status line, its JSON body (message or error text, list of
\* post views, like count, liked/following flag) and its Date header
ResponseAt(t, op, status, msg) ==
  [op |-> op, status |-> status, msg |-> msg, date |-> t,
   posts |-> NoPosts, likes |-> 0, flag |-> FALSE]

NoResp == ResponseAt(0, "none", 0, "")

Response(op, status, msg) == ResponseAt(now, op, status, msg)

\* LoginManager.unauthorized(): with a login_view configured the client is
\* redirected to it, otherwise the request is aborted with 401
unauthorized(op) ==
  IF login_view = "" THEN Response(op, 401, "Unauthorized")
  ELSE Response(op, 302, login_view)

\* every request taken for an authenticated one
is_authenticated_always(c) == TRUE

\* current_user.is_authenticated for the request of client c
is_authenticated(c) == session[c] # None /\ session[c] \in UserIds

NoPre == [count |-> 0, rows |-> EmptyBag]

IdleReq == [pc |-> "idle", user |-> None, arg |-> None, read_likes |-> 0,
            existing |-> FALSE, liked |-> FALSE, iso |-> FALSE, pre |-> NoPre,
            resp |-> NoResp]

\* db_url: the SQLite fallback, or the PostgreSQL server DATABASE_URL names
Engines == {"sqlite", "postgresql"}

\* ------------------------------------------------------------------- Init
Init ==
  /\ users = <<>>
  /\ posts = <<>>
  /\ likes = EmptyBag
  /\ follows = EmptyBag
  /\ session = [c \in Clients |-> None]
  /\ now = 0
  /\ resp = NoResp
  /\ reqs = [r \in Reqs |-> IdleReq]
  /\ trail = <<>>
  /\ engine \in Engines

\* ----------------------------------------------------------------- inputs
Usernames == {<<>>, <<"a">>, <<"A">>, <<" ", "a">>}
Passwords == {<<" ">>, <<"p">>, <<"q">>}

\* ---------------------------------------------------------------- signup
\* username = db.Column(db.String(50), unique=True): the commit of a second
\* row with the same username fails
UsernameTaken(tbl, username) ==
  \E i \in 1 .. Len(tbl) : tbl[i].username = username

\* POST /api/signup
signup(username_in, password_in) ==
  LET username == strip(username_in)
      password == strip(password_in)
  IN /\ IF username = <<>> \/ password = <<>>
        THEN /\ resp' = Response("signup", 400, "Missing username or password")
             /\ UNCHANGED users
        ELSE IF UserByName(users, username) # None
        THEN /\ resp' = Response("signup", 400, "Username exists")
             /\ UNCHANGED users
        ELSE IF UsernameTaken(users, username)
        THEN /\ resp' = Response("signup", 500, "IntegrityError")
             /\ UNCHANGED users
        ELSE /\ Len(users) < MaxUsers
             /\ users' = Append(users,
                   [username |-> username,
                    password_hash |-> generate_password_hash(password)])
             /\ resp' = Response("signup", 201, "User created")
     /\ UNCHANGED <<trail, posts, likes, follows, session, now, reqs, engine>>

\* POST /api/login
login(c, username_in, password_in) ==
  LET username == strip(username_in)
      password == strip(password_in)
      user == UserByName(users, username)
  IN /\ IF user # None /\ check_password_hash(users[user].password_hash, password)
        THEN /\ session' = [session EXCEPT ![c] = user]
             /\ resp' = Response("login", 200, "Login successful")
        ELSE /\ resp' = Response("login", 401, "Invalid credentials")
             /\ UNCHANGED session
     /\ UNCHANGED <<trail, users, posts, likes, follows, now, reqs, engine>>

\* POST /api/logout
logout(c) ==
  /\ IF ~is_authenticated(c)
     THEN /\ resp' = unauthorized("logout")
          /\ UNCHANGED session
     ELSE /\ session' = [session EXCEPT ![c] = None]
          /\ resp' = Response("logout", 200, "Logged out")
  /\ UNCHANGED <<trail, users, posts, likes, follows, now, reqs, engine>>

\* ------------------------------------------------------- database engine
\* a table without its UNIQUE constraint
UniqueViolation_off(table, a, b) == FALSE

\* the UNIQUE constraints _user_post_uc and _follower_followed_uc: an INSERT
\* of a pair the table already holds makes the commit fail
UniqueViolation(table, a, b) == HasRow(table, a, b)

\* the FOREIGN KEY from follow.followed_id to user.id: PostgreSQL checks it,
\* SQLite (the fallback engine) does not unless asked to
ForeignKeyViolation(eng, tblUsers, id) ==
  eng = "postgresql" /\ id \notin 1 .. Len(tblUsers)

Max(a, b) == IF a >= b THEN a ELSE b

\* the decrement without its floor
dec_likes_unfloored(n) == n - 1

\* post.likes = max(post.likes-1,0)
dec_likes(n) == Max(n - 1, 0)

\* the increment left out
inc_likes_forgotten(n) == n

\* post.likes += 1
inc_likes(n) == n + 1

\* ------------------------------------------------------------------ feeds
\* the filter left out
InWindow_all(tblPosts, p, t) == TRUE

\* the filter with >= for >
InWindow_closed(tblPosts, p, t) == tblPosts[p].timestamp >= t - Window

\* Post.timestamp > cutoff, cutoff = utcnow() - timedelta(hours=24)
InWindow(tblPosts, p, t) == tblPosts[p].timestamp > t - Window

\* rows with equal sort keys come in an order the engine chooses: by
\* ascending or by descending id
TieBreaks == {"asc", "desc"}

Before(a, b, key, tb) ==
  \/ key[a] > key[b]
  \/ key[a] = key[b] /\ (IF tb = "asc" THEN a < b ELSE a > b)

\* ORDER BY key DESC over the rows S
RECURSIVE OrderByDesc(_, _, _)
OrderByDesc(S, key, tb) ==
  IF S = {} THEN <<>>
  ELSE LET m == CHOOSE a \in S : \A b \in S \ {a} : Before(a, b, key, tb)
       IN <<m>> \o OrderByDesc(S \ {m}, key, tb)

\* the query without its LIMIT
Limit_none(s, n) == s

\* LIMIT n
Limit(s, n) == IF Len(s) <= n THEN s ELSE SubSeq(s, 1, n)

\* datetime.isoformat()
isoformat(t) == <<"iso", t>>

anon == <<"a", "n", "o", "n">>

\* user_liked taken from any Like row of the viewer
serialize_post_anylike(p, c) ==
  LET post == posts[p]
      auth == is_authenticated(c)
      user_liked ==
        IF auth THEN \E e \in BagToSet(likes) : e[1] = session[c] ELSE FALSE
      user_following ==
        IF auth THEN HasRow(follows, session[c], post.user_id) ELSE FALSE
      author == IF post.user_id # None
                THEN users[post.user_id].username ELSE anon
  IN [id |-> p, content |-> post.content, likes |-> post.likes,
      timestamp |-> isoformat(post.timestamp), author |-> author,
      author_id |-> post.user_id, user_liked |-> user_liked,
      user_following |-> user_following]

serialize_post(p, c) ==
  LET post == posts[p]
      auth == is_authenticated(c)
      user_liked == IF auth THEN HasRow(likes, session[c], p) ELSE FALSE
      user_following ==
        IF auth THEN HasRow(follows, session[c], post.user_id) ELSE FALSE
      author == IF post.user_id # None
                THEN users[post.user_id].username ELSE anon
  IN [id |-> p, content |-> post.content, likes |-> post.likes,
      timestamp |-> isoformat(post.timestamp), author |-> author,
      author_id |-> post.user_id, user_liked |-> user_liked,
      user_following |-> user_following]

PostList(op, ids, c) ==
  [Response(op, 200, "") EXCEPT
     !.posts = [i \in 1 .. Len(ids) |-> serialize_post(ids[i], c)]]

TimestampKey == [p \in PostIds |-> posts[p].timestamp]
LikesKey == [p \in PostIds |-> posts[p].likes]

\* the rows selected by get_posts and trending_posts
RecentIds == {p \in PostIds : InWindow(posts, p, now)}

\* the follow relation read the wrong way round
followed_ids_reversed(u) == {f[1] : f \in {e \in BagToSet(follows) : e[2] = u}}

\* the rows selected by following_posts for user u
followed_ids(u) == {f[2] : f \in {e \in BagToSet(follows) : e[1] = u}}
FollowingIds(u) ==
  {p \in PostIds : posts[p].user_id \in followed_ids(u) /\ InWindow(posts, p, now)}

\* GET /api/posts
get_posts(c, tb) ==
  /\ resp' = PostList("get_posts", OrderByDesc(RecentIds, TimestampKey, tb), c)
  /\ UNCHANGED <<trail, users, posts, likes, follows, session, now, reqs, engine>>

\* GET /api/posts/following
following_posts(c, tb) ==
  /\ IF ~is_authenticated(c)
     THEN resp' = unauthorized("following_posts")
     ELSE resp' = PostList("following_posts",
                    OrderByDesc(FollowingIds(session[c]), TimestampKey, tb), c)
  /\ UNCHANGED <<trail, users, posts, likes, follows, session, now, reqs, engine>>

\* GET /api/trending
trending_posts(c, tb) ==
  /\ resp' = PostList("trending_posts",
                Limit(OrderByDesc(RecentIds, LikesKey, tb), TrendLimit), c)
  /\ UNCHANGED <<trail, users, posts, likes, follows, session, now, reqs, engine>>

\* ------------------------------------------------------------------ posts
Contents == {<<" ">>, <<"h", "i">>}

\* the column post.content is String(280): PostgreSQL refuses a longer
\* value, SQLite stores it
MaxContent == 280
ContentTooLong(eng, content) == eng = "postgresql" /\ Len(content) > MaxContent

\* the handler without its test for empty content
add_post_unchecked(c, content_in, cap) ==
  /\ IF ~is_authenticated(c)
     THEN /\ resp' = unauthorized("add_post")
          /\ UNCHANGED posts
     ELSE LET content == clean_content(strip(content_in))
          IN IF ContentTooLong(engine, content)
             THEN /\ resp' = Response("add_post", 500, "DataError")
                  /\ UNCHANGED posts
             ELSE /\ Len(posts) < cap
                  /\ posts' = Append(posts,
                        [content |-> content, likes |-> 0,
                         timestamp |-> now, user_id |-> session[c]])
                  /\ resp' = Response("add_post", 201, "Post added")
  /\ UNCHANGED <<trail, users, likes, follows, session, now, reqs, engine>>

\* POST /api/posts
add_post(c, content_in, cap) ==
  /\ IF ~is_authenticated(c)
     THEN /\ resp' = unauthorized("add_post")
          /\ UNCHANGED posts
     ELSE LET content == clean_content(strip(content_in))
          IN IF content = <<>>
             THEN /\ resp' = Response("add_post", 400, "Empty post")
                  /\ UNCHANGED posts
             ELSE IF ContentTooLong(engine, content)
             THEN /\ resp' = Response("add_post", 500, "DataError")
                  /\ UNCHANGED posts
             ELSE /\ Len(posts) < cap
                  /\ posts' = Append(posts,
                        [content |-> content, likes |-> 0,
                         timestamp |-> now, user_id |-> session[c]])
                  /\ resp' = Response("add_post", 201, "Post added")
  /\ UNCHANGED <<trail, users, likes, follows, session, now, reqs, engine>>

\* ------------------------------------------------------------------ likes
\* The handler in three pieces; each reads the database as it is when the
\* piece runs.
\*   like_read:   post = Post.query.get_or_404(post_id)
\*   like_check:  existing_like = Like.query.filter_by(...).first()
\*   like_commit: the DELETE or INSERT, the UPDATE of post.likes, the commit
like_read(tblPosts, p) == tblPosts[p].likes

like_check(tblLikes, u, p) == HasRow(tblLikes, u, p)

\* the commit writing the counter of every post
like_commit_allposts(tblLikes, tblPosts, u, p, read_likes, existing) ==
  IF existing
  THEN [ok |-> TRUE, liked |-> FALSE,
        likes |-> tblLikes (-) Pair(u, p),
        posts |-> [q \in 1 .. Len(tblPosts) |->
                     [tblPosts[q] EXCEPT !.likes = dec_likes(read_likes)]]]
  ELSE IF UniqueViolation(tblLikes, u, p)
  THEN [ok |-> FALSE, liked |-> FALSE, likes |-> tblLikes, posts |-> tblPosts]
  ELSE [ok |-> TRUE, liked |-> TRUE,
        likes |-> tblLikes (+) Pair(u, p),
        posts |-> [q \in 1 .. Len(tblPosts) |->
                     [tblPosts[q] EXCEPT !.likes = inc_likes(read_likes)]]]

\* the commit: ok tells whether it went through; a failed commit is rolled
\* back as a whole
like_commit(tblLikes, tblPosts, u, p, read_likes, existing) ==
  IF existing
  THEN [ok |-> TRUE, liked |-> FALSE,
        likes |-> tblLikes (-) Pair(u, p),
        posts |-> [tblPosts EXCEPT ![p].likes = dec_likes(read_likes)]]
  ELSE IF UniqueViolation(tblLikes, u, p)
  THEN [ok |-> FALSE, liked |-> FALSE, likes |-> tblLikes, posts |-> tblPosts]
  ELSE [ok |-> TRUE, liked |-> TRUE,
        likes |-> tblLikes (+) Pair(u, p),
        posts |-> [tblPosts EXCEPT ![p].likes = inc_likes(read_likes)]]

\* jsonify({"likes": post.likes, "liked": ...}): post was expired by the
\* commit, so post.likes is read again
LikeResponse(tblPosts, p, liked) ==
  [Response("toggle_like_post", 200, "") EXCEPT
     !.likes = tblPosts[p].likes, !.flag = liked]

TrailPush(e) == IF Len(trail) = 2 THEN <<trail[2], e>> ELSE Append(trail, e)

TrailEntry(u, p, preCount, preRows, r) ==
  [user |-> u, post |-> p, preCount |-> preCount, preRows |-> preRows,
   liked |-> r.flag, count |-> r.likes]

\* POST /api/posts/<post_id>/like, handled in one piece
toggle_like_post(c, p) ==
  /\ IF ~is_authenticated(c)
     THEN /\ resp' = unauthorized("toggle_like_post")
          /\ UNCHANGED <<posts, likes>>
     ELSE IF p \notin PostIds
     THEN /\ resp' = Response("toggle_like_post", 404, "Not Found")
          /\ UNCHANGED <<posts, likes>>
     ELSE LET u == session[c]
              out == like_commit(likes, posts, u, p, like_read(posts, p),
                                 like_check(likes, u, p))
          IN /\ out.posts[p].likes <= MaxLikes
             /\ likes' = out.likes
             /\ posts' = out.posts
             /\ resp' = LikeResponse(out.posts, p, out.liked)
  /\ UNCHANGED <<trail, users, follows, session, now, reqs, engine>>

\* ---------------------------------------------------------------- follows
follow_check(tblFollows, u, target) == HasRow(tblFollows, u, target)

follow_commit(eng, tblUsers, tblFollows, u, target, existing) ==
  IF existing
  THEN [ok |-> TRUE, following |-> FALSE,
        follows |-> tblFollows (-) Pair(u, target)]
  ELSE IF \/ UniqueViolation(tblFollows, u, target)
          \/ ForeignKeyViolation(eng, tblUsers, target)
  THEN [ok |-> FALSE, following |-> FALSE, follows |-> tblFollows]
  ELSE [ok |-> TRUE, following |-> TRUE,
        follows |-> tblFollows (+) Pair(u, target)]

\* the test left out
is_self_follow_off(u, target) == FALSE

\* if user_id == current_user.id
is_self_follow(u, target) == target = u

FollowResponse(out) ==
  IF out.ok
  THEN [Response("toggle_follow", 200, "") EXCEPT !.flag = out.following]
  ELSE Response("toggle_follow", 500, "IntegrityError")

\* POST /api/follow/<user_id>, handled in one piece
toggle_follow(c, target) ==
  /\ IF ~is_authenticated(c)
     THEN /\ resp' = unauthorized("toggle_follow")
          /\ UNCHANGED follows
     ELSE IF is_self_follow(session[c], target)
     THEN /\ resp' = Response("toggle_follow", 400, "Cannot follow yourself")
          /\ UNCHANGED follows
     ELSE LET u == session[c]
              out == follow_commit(engine, users, follows, u, target,
                                   follow_check(follows, u, target))
          IN /\ follows' = out.follows
             /\ resp' = FollowResponse(out)
  /\ UNCHANGED <<trail, users, posts, likes, session, now, reqs, engine>>

\* ------------------------------------------------------------------ clock
\* time passes between requests
Tick(d) ==
  /\ now + d <= MaxTicks * HalfWindow
  /\ now' = now + d
  /\ UNCHANGED <<users, posts, likes, follows, session, resp, reqs, trail, engine>>

\* the ids a URL can name: the rows there can be, and one beyond
UrlPostIds == 1 .. MaxPosts + 1
UrlUserIds == 1 .. MaxUsers + 1

\* ------------------------------------------- requests handled step by step
\* The server handles requests in threads, so the pieces of two handlers
\* can alternate. reqs[r] holds what the handler of request r has in its
\* local variables between two pieces.
InFlight(r) == reqs[r].pc # "idle"
OthersInFlight(r) == \E q \in Reqs \ {r} : InFlight(q)

\* a request starts: every request in flight now overlaps another one
Overlapped(r, mine) ==
  [q \in Reqs |-> IF q = r THEN mine ELSE [reqs[q] EXCEPT !.iso = FALSE]]

Finish(r, response) == [reqs EXCEPT ![r] = [IdleReq EXCEPT !.resp = response]]

\* login_required, then post = Post.query.get_or_404(post_id)
BeginLike(r, c, p) ==
  /\ ~InFlight(r)
  /\ IF ~is_authenticated(c)
     THEN reqs' = Overlapped(r, [IdleReq EXCEPT !.resp = unauthorized("toggle_like_post")])
     ELSE IF p \notin PostIds
     THEN reqs' = Overlapped(r, [IdleReq EXCEPT
                     !.resp = Response("toggle_like_post", 404, "Not Found")])
     ELSE reqs' = Overlapped(r,
               [IdleReq EXCEPT !.pc = "like_read", !.user = session[c],
                  !.arg = p, !.read_likes = like_read(posts, p),
                  !.iso = ~OthersInFlight(r),
                  !.pre = [count |-> posts[p].likes, rows |-> likes]])
  /\ trail' = IF is_authenticated(c) /\ p \in PostIds /\ ~OthersInFlight(r)
              THEN trail ELSE <<>>
  /\ UNCHANGED <<users, posts, likes, follows, session, now, resp, engine>>

\* existing_like = Like.query.filter_by(...).first()
LikeCheck(r) ==
  /\ reqs[r].pc = "like_read"
  /\ reqs' = [reqs EXCEPT ![r].pc = "like_checked",
                ![r].existing = like_check(likes, reqs[r].user, reqs[r].arg)]
  /\ UNCHANGED <<users, posts, likes, follows, session, now, resp, trail, engine>>

\* the DELETE or INSERT, the UPDATE of post.likes, db.session.commit()
LikeCommit(r) ==
  /\ reqs[r].pc = "like_checked"
  /\ LET q == reqs[r]
         out == like_commit(likes, posts, q.user, q.arg, q.read_likes, q.existing)
     IN /\ out.posts[q.arg].likes <= MaxLikes
        /\ likes' = out.likes
        /\ posts' = out.posts
        /\ IF out.ok
           THEN /\ reqs' = [reqs EXCEPT ![r].pc = "like_committed",
                              ![r].liked = out.liked]
                /\ UNCHANGED trail
           ELSE /\ reqs' = Finish(r, Response("toggle_like_post", 500, "IntegrityError"))
                /\ trail' = <<>>
  /\ UNCHANGED <<users, follows, session, now, resp, engine>>

\* return jsonify({"likes": post.likes, "liked": ...})
LikeRespond(r) ==
  /\ reqs[r].pc = "like_committed"
  /\ LET q == reqs[r]
         response == LikeResponse(posts, q.arg, q.liked)
     IN /\ reqs' = Finish(r, response)
        /\ trail' = IF q.iso
                    THEN TrailPush(TrailEntry(q.user, q.arg, q.pre.count,
                                              q.pre.rows, response))
                    ELSE <<>>
  /\ UNCHANGED <<users, posts, likes, follows, session, now, resp, engine>>

\* login_required, the self-follow test, then
\* existing_follow = Follow.query.filter_by(...).first()
BeginFollow(r, c, target) ==
  /\ ~InFlight(r)
  /\ IF ~is_authenticated(c)
     THEN reqs' = Overlapped(r, [IdleReq EXCEPT !.resp = unauthorized("toggle_follow")])
     ELSE IF is_self_follow(session[c], target)
     THEN reqs' = Overlapped(r, [IdleReq EXCEPT
                     !.resp = Response("toggle_follow", 400, "Cannot follow yourself")])
     ELSE reqs' = Overlapped(r,
               [IdleReq EXCEPT !.pc = "follow_checked", !.user = session[c],
                  !.arg = target,
                  !.existing = follow_check(follows, session[c], target)])
  /\ trail' = <<>>
  /\ UNCHANGED <<users, posts, likes, follows, session, now, resp, engine>>

\* the DELETE or INSERT, db.session.commit(), the response
FollowCommit(r) ==
  /\ reqs[r].pc = "follow_checked"
  /\ LET q == reqs[r]
         out == follow_commit(engine, users, follows, q.user, q.arg, q.existing)
     IN /\ follows' = out.follows
        /\ reqs' = Finish(r, FollowResponse(out))
  /\ UNCHANGED <<users, posts, likes, session, now, resp, trail, engine>>

\* --------------------------------------------------------- specifications
\* Requests handled one after the other, from an empty database.
Next ==
  \/ \E u \in Usernames, p \in Passwords : signup(u, p)
  \/ \E c \in Clients, u \in Usernames, p \in Passwords : login(c, u, p)
  \/ \E c \in Clients : logout(c)
  \/ \E c \in Clients, t \in Contents : add_post(c, t, MaxPosts)
  \/ \E c \in Clients, p \in UrlPostIds : toggle_like_post(c, p)
  \/ \E c \in Clients, t \in UrlUserIds : toggle_follow(c, t)
  \/ \E c \in Clients, tb \in TieBreaks : following_posts(c, tb)

Spec == Init /\ [][Next]_vars

\* Two registered users, each logged in from a client of theirs, and one
\* post: the state after signup and login of "a" and "A" and a post by "a".
TwoUsers ==
  << [username |-> <<"a">>, password_hash |-> generate_password_hash(<<"p">>)],
     [username |-> <<"A">>, password_hash |-> generate_password_hash(<<"p">>)] >>

OnePost == << [content |-> <<"h", "i">>, likes |-> 0, timestamp |-> 0,
               user_id |-> 1] >>

ConcInit ==
  /\ users = TwoUsers
  /\ posts = OnePost
  /\ likes = EmptyBag
  /\ follows = EmptyBag
  /\ session = [c \in Clients |-> IF c <= Len(TwoUsers) THEN c ELSE None]
  /\ now = 0
  /\ resp = NoResp
  /\ reqs = [r \in Reqs |-> IdleReq]
  /\ trail = <<>>
  /\ engine \in Engines

\* The feeds: two registered users who post, like, follow and read while
\* time passes.
FeedInit ==
  /\ users = TwoUsers
  /\ posts = <<>>
  /\ likes = EmptyBag
  /\ follows = EmptyBag
  /\ session = [c \in Clients |-> IF c <= Len(TwoUsers) THEN c ELSE None]
  /\ now = 0
  /\ resp = NoResp
  /\ reqs = [r \in Reqs |-> IdleReq]
  /\ trail = <<>>
  /\ engine \in Engines

FeedNext ==
  \/ \E c \in Clients : logout(c)
  \/ \E c \in Clients : add_post(c, <<"h", "i">>, MaxFeedPosts)
  \/ \E c \in Clients, t \in 1 .. MaxUsers : toggle_follow(c, t)
  \/ \E d \in {HalfWindow, Window} : Tick(d)
  \/ \E c \in Clients, tb \in TieBreaks : get_posts(c, tb)
  \/ \E c \in Clients, tb \in TieBreaks : following_posts(c, tb)

FeedSpec == FeedInit /\ [][FeedNext]_vars

\* Trending: one user who posts and likes while time passes.
TrendInit ==
  /\ users = <<TwoUsers[1]>>
  /\ posts = <<>>
  /\ likes = EmptyBag
  /\ follows = EmptyBag
  /\ session = [c \in Clients |-> IF c = 1 THEN 1 ELSE None]
  /\ now = 0
  /\ resp = NoResp
  /\ reqs = [r \in Reqs |-> IdleReq]
  /\ trail = <<>>
  /\ engine = "sqlite"

\* the posts the user toggles: the two oldest and the two newest there can be
TrendLikeIds == {1, 2, MaxTrendPosts - 1, MaxTrendPosts}

TrendNext ==
  \/ add_post(1, <<"h", "i">>, MaxTrendPosts)
  \/ \E p \in TrendLikeIds : toggle_like_post(1, p)
  \/ Tick(Window)
  \/ \E tb \in TieBreaks : trending_posts(1, tb)

TrendSpec == TrendInit /\ [][TrendNext]_vars

\* Views: two registered users who post, like, follow, log out and read.
ViewInit ==
  /\ users = TwoUsers
  /\ posts = OnePost
  /\ likes = EmptyBag
  /\ follows = EmptyBag
  /\ session = [c \in Clients |-> IF c <= Len(TwoUsers) THEN c ELSE None]
  /\ now = 0
  /\ resp = NoResp
  /\ reqs = [r \in Reqs |-> IdleReq]
  /\ trail = <<>>
  /\ engine \in Engines

ViewNext ==
  \/ \E c \in Clients : logout(c)
  \/ \E c \in Clients : add_post(c, <<"h", "i">>, MaxPosts + 1)
  \/ \E c \in Clients, p \in 1 .. MaxPosts + 1 : toggle_like_post(c, p)
  \/ \E c \in Clients, t \in 1 .. MaxUsers : toggle_follow(c, t)
  \/ \E c \in Clients, tb \in TieBreaks : get_posts(c, tb)

ViewSpec == ViewInit /\ [][ViewNext]_vars

\* Posting: two registered users who post texts up to one character longer
\* than the column, like and follow while time passes.
LongText(n) == [i \in 1 .. n |-> "x"]

PostContents ==
  {<<>>, <<" ">>, <<" ", "h", "i", " ">>, LongText(MaxContent),
   LongText(MaxContent + 1)}

PostNext ==
  \/ \E c \in Clients, t \in PostContents : add_post(c, t, MaxPosts + 1)
  \/ \E c \in Clients : toggle_like_post(c, Len(OnePost))
  \/ \E c \in Clients : toggle_follow(c, Len(TwoUsers))
  \/ Tick(HalfWindow)

PostSpec == ViewInit /\ [][PostNext]_vars

\* Filtering: logged-in users post texts put together from banned words in
\* several spellings, fragments of them and other characters.
Pieces ==
  {<<>>, <<" ">>, <<"x">>, <<"b","a","d">>, <<"w","o","r","d","1">>,
   <<"b","a","d","w","o","r","d","1">>,
   <<"B","a","d","W","o","r","d","2">>,
   <<"B","A","D","W","O","R","D","3">>}

Example ==
  <<"t","h","i","s"," ","i","s"," ","a"," ">> \o banned_words[1]
    \o <<" ","t","e","s","t">>

CleanTexts == {a \o b \o c : a \in Pieces, b \in Pieces, c \in Pieces} \cup {Example}

CleanInit ==
  /\ users = TwoUsers /\ posts = <<>> /\ likes = EmptyBag /\ follows = EmptyBag
  /\ session = [c \in Clients |-> IF c <= Len(TwoUsers) THEN c ELSE None]
  /\ now = 0 /\ resp = NoResp /\ reqs = [r \in Reqs |-> IdleReq]
  /\ trail = <<>> /\ engine \in Engines

CleanNext == \E c \in Clients, t \in CleanTexts : add_post(c, t, Len(OnePost))

CleanSpec == CleanInit /\ [][CleanNext]_vars

\* Toggle requests whose pieces alternate.
ConcNext ==
  \/ \E r \in Reqs, c \in Clients, p \in UrlPostIds : BeginLike(r, c, p)
  \/ \E r \in Reqs : LikeCheck(r)
  \/ \E r \in Reqs : LikeCommit(r)
  \/ \E r \in Reqs : LikeRespond(r)
  \/ \E r \in Reqs, c \in Clients, t \in UrlUserIds : BeginFollow(r, c, t)
  \/ \E r \in Reqs : FollowCommit(r)

ConcSpec == ConcInit /\ [][ConcNext]_vars

\* ------------------------------------------------------------- properties
NoneInFlight == \A r \in Reqs : ~InFlight(r)

CounterMatchesRows == \A p \in PostIds : posts[p].likes = LikeRows(likes, p)

\* C1: when requests are handled one after the other, every post's like
\* counter equals the number of Like rows that reference the post.
C1_CounterEqualsLikeRows == CounterMatchesRows

\* a user has just taken back a like from a post another user still likes
C1_Witness ==
  /\ resp.op = "toggle_like_post" /\ resp.status = 200 /\ ~resp.flag
  /\ \E p \in PostIds : posts[p].likes = 1 /\ LikeRows(likes, p) = 1

\* C2: once all concurrent toggle-like requests have completed, every post's
\* like counter equals the number of Like rows for the post.
C2_NoLostUpdate == NoneInFlight => CounterMatchesRows

\* C4: every post's like counter is a non-negative integer, also under
\* interleaved toggle-like requests.
C4_LikesNonNegative == \A p \in PostIds : posts[p].likes \in Nat

\* a like was taken back from a post whose counter was read as 0: the floor
\* of the decrement acted
C4_Witness ==
  \E r \in Reqs :
    /\ reqs[r].pc = "like_committed" /\ ~reqs[r].liked
    /\ reqs[r].read_likes = 0
    /\ posts[reqs[r].arg].likes = 0

\* C5: there is at most one Like row per (user, post) and at most one Follow
\* row per (follower, followed), also when two requests of one user for the
\* same pair both run the existence check before either inserts.
C5_OneRowPerPair ==
  /\ \A e \in BagToSet(likes) : CopiesIn(e, likes) = 1
  /\ \A e \in BagToSet(follows) : CopiesIn(e, follows) = 1

\* two requests of one user for one post both found no Like row; one
\* inserted it, the commit of the other was refused
C5_Witness ==
  \E r \in Reqs :
    /\ reqs[r].resp.op = "toggle_like_post" /\ reqs[r].resp.status = 500
    /\ \E e \in BagToSet(likes) : CopiesIn(e, likes) = 1

\* C3: two consecutive toggle-like calls by one user on one post, with no
\* other request in between, leave the post's like count and the Like rows
\* as they were before the first call; when the user had not liked the post,
\* the first call returns liked=true with count+1 and the second liked=false
\* with the original count.
C3_DoubleToggleRestores ==
  (/\ NoneInFlight
   /\ Len(trail) = 2
   /\ trail[1].user = trail[2].user
   /\ trail[1].post = trail[2].post)
  => LET u == trail[1].user
         p == trail[1].post
         pre == trail[1].preCount
     IN /\ likes = trail[1].preRows
        /\ posts[p].likes = pre
        /\ ~HasRow(trail[1].preRows, u, p)
             => /\ trail[1].liked /\ trail[1].count = pre + 1
                /\ ~trail[2].liked /\ trail[2].count = pre

\* C6: a toggle-follow request whose target is the requester's own id fails
\* and leaves the Follow table unchanged, and no Follow row ever has
\* follower_id equal to followed_id.
C6_SelfFollowFails ==
  [][/\ resp'.op = "toggle_follow" =>
          \A c \in Clients :
            (is_authenticated(c) /\ toggle_follow(c, session[c]))
              => /\ resp'.status \in 400 .. 499
                 /\ follows' = follows
     /\ \A e \in BagToSet(follows') : e[1] # e[2]]_vars

\* a self-follow was refused while the requester follows somebody else
C6_Witness ==
  /\ resp.op = "toggle_follow" /\ resp.status = 400
  /\ follows # EmptyBag

UniqueUsernames(tbl) ==
  \A i, j \in 1 .. Len(tbl) : i # j => tbl[i].username # tbl[j].username

\* C7: once a username is registered, every later signup whose trimmed
\* username is exactly that one and whose password is not empty after
\* trimming fails with the 400 duplicate-username error; with any password
\* at all it fails with a 400 error and leaves the users table unchanged; no
\* two users ever share a username.
C7_DuplicateSignupFailsValid ==
  [][/\ resp'.op = "signup" =>
          \A u \in Usernames, p \in Passwords :
            (/\ \E i \in 1 .. Len(users) : users[i].username = strip(u)
             /\ signup(u, p))
              => /\ resp'.status = 400
                 /\ strip(p) # <<>> => resp'.msg = "Username exists"
                 /\ users' = users
     /\ UniqueUsernames(users')]_vars

\* C7 as stated: once a username is registered, every later signup whose
\* trimmed username is exactly that one fails with the 400
\* duplicate-username error and leaves the users table unchanged, whatever
\* the password; no two users ever share a username.
C7_DuplicateSignupFails ==
  [][/\ resp'.op = "signup" =>
          \A u \in Usernames, p \in Passwords :
            (/\ \E i \in 1 .. Len(users) : users[i].username = strip(u)
             /\ signup(u, p))
              => /\ resp'.status = 400
                 /\ resp'.msg = "Username exists"
                 /\ users' = users
     /\ UniqueUsernames(users')]_vars

\* a duplicate signup was refused although "a" and "A" are both registered
C7_Witness ==
  /\ resp.op = "signup" /\ resp.status = 400 /\ resp.msg = "Username exists"
  /\ Len(users) = 2

\* reading a timestamp back from its ISO form
fromisoformat(s) == s[2]

Sorted(seq, key(_)) ==
  \A i, j \in 1 .. Len(seq) : i < j => key(seq[i]) >= key(seq[j])

ViewTime(v) == fromisoformat(v.timestamp)
ViewLikes(v) == v.likes

\* C8: every post returned by GET /api/posts has a timestamp no older than
\* 24 hours before the request time, and the list is ordered by timestamp,
\* newest first.
C8_RecentNewestFirst ==
  resp.op = "get_posts"
    => /\ \A i \in 1 .. Len(resp.posts) :
            ViewTime(resp.posts[i]) >= resp.date - Window
       /\ Sorted(resp.posts, ViewTime)

\* of three posts the two recent ones are returned, the newer first
C8_Witness ==
  /\ resp.op = "get_posts" /\ resp.date = now
  /\ Len(posts) = 3 /\ Len(resp.posts) = 2
  /\ ViewTime(resp.posts[1]) > ViewTime(resp.posts[2])

ReturnedIds == {resp.posts[i].id : i \in 1 .. Len(resp.posts)}

SessionRequest(c) ==
  \/ \E tb \in TieBreaks : following_posts(c, tb)
  \/ logout(c)
  \/ \E t \in Contents : add_post(c, t, MaxPosts)
  \/ \E p \in UrlPostIds : toggle_like_post(c, p)
  \/ \E t \in UrlUserIds : toggle_follow(c, t)

\* C10: a request to a session-required endpoint made without an
\* authenticated session is answered with a 401 response.
C10_Unauthenticated401 ==
  [][\A c \in Clients :
       (~is_authenticated(c) /\ SessionRequest(c)) => resp'.status = 401]_vars

\* C11: for an authenticated viewer GET /api/posts/following returns exactly
\* the posts less than 24 hours old whose author the viewer follows at the
\* time of the request, each once, newest first.
C11_FollowingFeedExact ==
  [][resp'.op = "following_posts" =>
       \A c \in Clients, tb \in TieBreaks :
         (session[c] # None /\ following_posts(c, tb))
           => LET ids == {resp'.posts[i].id : i \in 1 .. Len(resp'.posts)}
              IN /\ resp'.status = 200
                 /\ ids = {p \in PostIds :
                             /\ posts[p].timestamp > now - 24
                             /\ <<session[c], posts[p].user_id>> \in BagToSet(follows)}
                 /\ Cardinality(ids) = Len(resp'.posts)
                 /\ Sorted(resp'.posts, ViewTime)]_vars

\* the feed holds two posts of a followed author, and a recent post of an
\* author the viewer does not follow is left out
C11_Witness ==
  /\ resp.op = "following_posts" /\ resp.status = 200 /\ resp.date = now
  /\ Len(resp.posts) = 2
  /\ ViewTime(resp.posts[1]) > ViewTime(resp.posts[2])
  /\ \E p \in PostIds \ ReturnedIds : posts[p].timestamp > now - 24

\* C15 as stated: the window of GET /api/posts is the closed interval
\* [now - 24h, now]; a post exactly 24 hours old is returned, and so is every
\* post whose timestamp lies in the interval.
C15_ClosedWindow ==
  resp.op = "get_posts"
    => ReturnedIds = {p \in PostIds :
                        /\ posts[p].timestamp >= resp.date - 24
                        /\ posts[p].timestamp <= resp.date}

\* C15: the window of GET /api/posts is the half-open interval
\* (now - 24h, now]; a post exactly 24 hours old is not returned, and every
\* post whose timestamp lies in the interval is.
C15_HalfOpenWindow ==
  resp.op = "get_posts"
    => ReturnedIds = {p \in PostIds :
                        /\ posts[p].timestamp > resp.date - 24
                        /\ posts[p].timestamp <= resp.date}

\* a post exactly 24 hours old is left out and a newer one is returned
C15_Witness ==
  /\ resp.op = "get_posts" /\ resp.date = now
  /\ Len(resp.posts) >= 1
  /\ \E p \in PostIds \ ReturnedIds : posts[p].timestamp = now - 24

\* C12: every PostView returned has likes equal to the post's stored
\* counter, user_liked true exactly when a Like row (viewer, post) exists and
\* user_following true exactly when a Follow row (viewer, author) exists;
\* both flags are false without an authenticated viewer, and user_following
\* is false when the post has no author.
C12_PostViewFlags ==
  [][resp'.op = "get_posts" =>
       \A c \in Clients, tb \in TieBreaks :
         get_posts(c, tb)
           => \A i \in 1 .. Len(resp'.posts) :
                LET v == resp'.posts[i]
                    u == session[c]
                    a == posts[v.id].user_id
                IN /\ v.likes = posts[v.id].likes
                   /\ v.user_liked
                        <=> (u # None /\ <<u, v.id>> \in BagToSet(likes))
                   /\ v.user_following
                        <=> (/\ u # None /\ a # None
                             /\ <<u, a>> \in BagToSet(follows))]_vars

\* one view is liked by the viewer but not of a followed author, another is
\* of a followed author but not liked
C12_Witness ==
  /\ resp.op = "get_posts"
  /\ \E i, j \in 1 .. Len(resp.posts) :
       /\ resp.posts[i].user_liked /\ ~resp.posts[i].user_following
       /\ ~resp.posts[j].user_liked /\ resp.posts[j].user_following
       /\ resp.posts[i].likes # resp.posts[j].likes

\* C16: a post is never deleted and its content, timestamp and author never
\* change; a toggle-like on post p changes no other post and leaves the
\* Follow and User tables and the number of posts unchanged.
C16_PostsImmutable ==
  [][/\ Len(posts') >= Len(posts)
     /\ \A q \in PostIds :
          /\ posts'[q].content = posts[q].content
          /\ posts'[q].timestamp = posts[q].timestamp
          /\ posts'[q].user_id = posts[q].user_id
     /\ resp'.op = "toggle_like_post" =>
          \A c \in Clients, p \in 1 .. MaxPosts + 1 :
            toggle_like_post(c, p)
              => /\ \A q \in PostIds \ {p} : posts'[q] = posts[q]
                 /\ Len(posts') = Len(posts)
                 /\ follows' = follows
                 /\ users' = users]_vars

\* a like was toggled on one of two posts while a Follow row exists
C16_Witness ==
  /\ resp.op = "toggle_like_post" /\ resp.status = 200
  /\ Len(posts) = 2 /\ posts[1].likes # posts[2].likes
  /\ follows # EmptyBag

NewPostBy(c) ==
  /\ Len(posts') = Len(posts) + 1
  /\ posts'[Len(posts')].likes = 0
  /\ posts'[Len(posts')].user_id = session[c]
  /\ posts'[Len(posts')].timestamp = now
  /\ \A q \in PostIds : posts'[q] = posts[q]
  /\ likes' = likes
  /\ follows' = follows

EmptyPostRefused ==
  /\ resp'.status = 400 /\ resp'.msg = "Empty post"
  /\ posts' = posts /\ likes' = likes /\ follows' = follows

\* C13 as stated: for an authenticated requester POST /api/posts with content
\* that is empty after trimming fails with the 400 empty-content error and
\* creates no post; with any other content it creates exactly one new post
\* with like counter 0, the requester as author and the current time as
\* timestamp, and changes no other post, Like or Follow row.
C13_AddPost ==
  [][resp'.op = "add_post" =>
       \A c \in Clients, t \in PostContents :
         (session[c] # None /\ add_post(c, t, MaxPosts + 1))
           => IF strip(t) = <<>> THEN EmptyPostRefused ELSE NewPostBy(c)]_vars

\* C13: for an authenticated requester POST /api/posts with content that is
\* empty after trimming fails with the 400 empty-content error and creates
\* no post; with any other content that is at most 280 characters long after
\* trimming and filtering it creates exactly one new post with like counter
\* 0, the requester as author and the current time as timestamp, and changes
\* no other post, Like or Follow row.
C13_AddPostUpTo280 ==
  [][resp'.op = "add_post" =>
       \A c \in Clients, t \in PostContents :
         (session[c] # None /\ add_post(c, t, MaxPosts + 1))
           => IF strip(t) = <<>> THEN EmptyPostRefused
              ELSE Len(clean_content(strip(t))) <= 280 => NewPostBy(c)]_vars

\* a second post was created, later than the first, while a Like row and a
\* Follow row exist
C13_Witness ==
  /\ resp.op = "add_post" /\ resp.status = 201
  /\ Len(posts) = 2 /\ posts[2].timestamp = now /\ now > posts[1].timestamp
  /\ posts[2].likes = 0 /\ posts[1].likes > 0
  /\ follows # EmptyBag

\* C17: the content of every stored post is at most 280 characters long.
C17_ContentAtMost280 == \A p \in PostIds : Len(posts[p].content) <= 280

\* the banned words that occur in text at position i, whatever the case
WordsAt(text, i) ==
  {k \in 1 .. Len(banned_words) :
     /\ i + Len(banned_words[k]) - 1 <= Len(text)
     /\ FoldSeq(SubSeq(text, i, i + Len(banned_words[k]) - 1))
          = FoldSeq(banned_words[k])}

ContainsBanned(text) == \E i \in 1 .. Len(text) : WordsAt(text, i) # {}

\* is position i covered by an occurrence that starts before it
Covered(text, i) ==
  \E j \in 1 .. i - 1 :
     \E k \in WordsAt(text, j) : i < j + Len(banned_words[k])

\* text with every occurrence put under the mask, built position by position
RECURSIVE Masked(_, _)
Masked(text, i) ==
  IF i > Len(text) THEN <<>>
  ELSE (IF Covered(text, i) THEN <<>>
        ELSE IF WordsAt(text, i) # {} THEN <<"*", "*", "*", "*">>
        ELSE <<text[i]>>) \o Masked(text, i + 1)

ExampleStored ==
  <<"t","h","i","s"," ","i","s"," ","a"," ","*","*","*","*"," ","t","e","s","t">>

\* C14: clean replaces each case-insensitive occurrence of each banned word
\* with the four-character mask and leaves every other character unchanged
\* ("this is a badword1 test" becomes "this is a **** test"), so the content
\* stored for a post never contains a banned word, whatever the case.
C14_BannedWordsMasked ==
  [][(resp'.op = "add_post" /\ resp'.status = 201) =>
       \A c \in Clients, t \in CleanTexts :
         add_post(c, t, Len(OnePost))
           => LET stored == posts'[Len(posts')].content
              IN /\ stored = Masked(strip(t), 1)
                 /\ ~ContainsBanned(stored)
                 /\ (t = Example => stored = ExampleStored)]_vars

\* a text with two occurrences of a banned word in different spellings, one
\* of them put together from fragments, was stored
C14_Witness ==
  /\ resp.op = "add_post" /\ resp.status = 201
  /\ Len(posts) = 1
  /\ posts[1].content = <<"*", "*", "*", "*", "*", "*", "*", "*">>

\* C18: every Follow row references existing users (a toggle-follow request
\* whose target id belongs to no registered user creates no Follow row).
C18_FollowsReferenceUsers ==
  \A e \in BagToSet(follows) : e[1] \in UserIds /\ e[2] \in UserIds

\* the requests that write posts, likes or follows, sent by client c
WriteRequest(c) ==
  \/ \E t \in Contents : add_post(c, t, MaxPosts)
  \/ \E p \in UrlPostIds : toggle_like_post(c, p)
  \/ \E t \in UrlUserIds : toggle_follow(c, t)

\* every row the step created belongs to user u
NewRowsBy(u) ==
  /\ \A q \in (DOMAIN posts') \ (DOMAIN posts) : posts'[q].user_id = u
  /\ \A e \in BagToSet(likes' (-) likes) : e[1] = u
  /\ \A e \in BagToSet(follows' (-) follows) : e[1] = u

\* C19: POST /api/posts, POST /api/posts/:id/like and POST /api/follow/:id
\* sent without an authenticated session change none of the posts, likes and
\* follows tables, and every Post, Like and Follow row a request creates is
\* attributed to the user who was authenticated on that request.
C19_OnlyAuthenticatedWrites ==
  [][resp'.op \in {"add_post", "toggle_like_post", "toggle_follow"} =>
       \A c \in Clients :
         WriteRequest(c)
           => IF session[c] = None
              THEN posts' = posts /\ likes' = likes /\ follows' = follows
              ELSE NewRowsBy(session[c])]_vars

\* a like request without a session was turned away while posts, Like rows
\* and Follow rows exist
C19_Witness ==
  /\ resp = unauthorized("toggle_like_post")
  /\ \E c \in Clients : session[c] = None
  /\ posts # <<>> /\ likes # EmptyBag /\ follows # EmptyBag
====
